---- MODULE Spec2Model ----
(***************************************************************************)
(* A model of linkcheck.py: the Links frontier, the Domain scope, the      *)
(* href normalisation of Page, the Report, and the crawl loops of          *)
(* SequentialEngine.run and AsyncEngine.run_async.                         *)
(*                                                                         *)
(* URLs and hrefs are Python strings; here a string is a sequence of       *)
(* one-character strings, so that startswith, endswith, find, slicing and  *)
(* concatenation are computed character by character as the code does.     *)
(***************************************************************************)
EXTENDS Integers, Sequences, FiniteSets, TLC

VARIABLES engine, root, limit, all, checked, good_urls, bad_urls, count,
          pc, url, response, page, op, ret, responses, fetches, failed, twin

vars == <<engine, root, limit, all, checked, good_urls, bad_urls, count,
          pc, url, response, page, op, ret, responses, fetches, failed, twin>>

\* Python's None, a value that is no string
None == <<"None">>

\* no --limit given: self.limit is None, which the loop tests like 0
NoLimit == 0

(***************************************************************************)
(* Bounds of the model.                                                    *)
(***************************************************************************)
\* the number of distinct URLs a crawl of a modelled site discovers at most
MaxUrls == 4
\* the largest --limit value tried (limits 1..MaxLimit, and no limit)
MaxLimit == 2
\* the longest list handed to Links.add_many in the Links-only specification
MaxMany == 2
\* the longest list of hrefs handed to Page.extract_urls on its own
MaxHrefs == 2

(***************************************************************************)
(* Python string operations.                                               *)
(***************************************************************************)
\* s.startswith(p)
startswith(s, p) == Len(s) >= Len(p) /\ SubSeq(s, 1, Len(p)) = p

\* s.endswith(p)
endswith(s, p) == Len(s) >= Len(p) /\ SubSeq(s, Len(s) - Len(p) + 1, Len(s)) = p

\* s.find(c) for a one-character c: the 0-based position of the first c, or -1
find(s, c) ==
    IF \E i \in 1..Len(s) : s[i] = c
    THEN (CHOOSE i \in 1..Len(s) : s[i] = c /\ \A j \in 1..(i - 1) : s[j] # c) - 1
    ELSE -1

\* s[:n] for 0 <= n
prefix(s, n) == SubSeq(s, 1, IF n < Len(s) THEN n ELSE Len(s))

\* s[n:] for 0 <= n
suffix(s, n) == SubSeq(s, n + 1, Len(s))

UpperToLower == [c \in {"M", "A", "I", "L", "T", "O", "H", "P"} |->
    CASE c = "M" -> "m" [] c = "A" -> "a" [] c = "I" -> "i" [] c = "L" -> "l"
      [] c = "T" -> "t" [] c = "O" -> "o" [] c = "H" -> "h" [] c = "P" -> "p"]

\* s.lower()
lower(s) == [i \in 1..Len(s) |->
    IF s[i] \in DOMAIN UpperToLower THEN UpperToLower[s[i]] ELSE s[i]]

Letters == {"a", "b", "c", "f", "h", "i", "l", "m", "o", "p", "s", "t", "x"}
    \cup DOMAIN UpperToLower

\* urllib.parse.scheme_chars, within the alphabet of the model
scheme_chars == Letters \cup {"+", "-", "."}

(***************************************************************************)
(* urllib.parse.urlparse, as far as Domain uses it: the scheme and the     *)
(* netloc of a URL.                                                        *)
(***************************************************************************)
\* whether urlsplit finds a scheme before the first ':'
has_scheme(u) ==
    LET i == find(u, ":") IN
        /\ i > 0
        /\ u[1] \in Letters
        /\ \A j \in 1..i : u[j] \in scheme_chars

urlparse_scheme(u) ==
    IF has_scheme(u) THEN lower(prefix(u, find(u, ":"))) ELSE <<>>

urlparse_netloc(u) ==
    LET rest == IF has_scheme(u) THEN suffix(u, find(u, ":") + 1) ELSE u
        ends == {i \in 3..Len(rest) : rest[i] \in {"/", "?", "#"}}
        delim == IF ends = {} THEN Len(rest) + 1
                 ELSE CHOOSE i \in ends : \A j \in ends : i <= j
    IN  IF prefix(rest, 2) = <<"/", "/">> THEN SubSeq(rest, 3, delim - 1) ELSE <<>>

(***************************************************************************)
(* class Domain                                                            *)
(***************************************************************************)
\* Domain.from_url(url): the record of default_scheme and netloc
Domain_from_url(u) ==
    [default_scheme |-> urlparse_scheme(u), netloc |-> urlparse_netloc(u)]

\* Domain.url_in_domain(url)
url_in_domain_AnyHost(dom, u) == TRUE

url_in_domain_SameScheme(dom, u) ==
    dom.netloc = urlparse_netloc(u) /\ dom.default_scheme = urlparse_scheme(u)

url_in_domain(dom, u) == dom.netloc = urlparse_netloc(u)

(***************************************************************************)
(* class Page                                                              *)
(***************************************************************************)
\* Page.url_is_valid()
url_is_valid_Le300(status) == status >= 200 /\ status <= 300

url_is_valid_Any(status) == TRUE

url_is_valid(status) == status >= 200 /\ status < 300

\* Page.is_full_url(url)
is_full_url(u) ==
    \/ startswith(u, <<"h", "t", "t", "p", ":", "/", "/">>)
    \/ startswith(u, <<"h", "t", "t", "p", "s", ":", "/", "/">>)

\* is_skippable(url), local to normalize_url
is_skippable_CaseSensitive(u) == startswith(u, <<"m", "a", "i", "l", "t", "o", ":">>)

is_skippable(u) == startswith(lower(u), <<"m", "a", "i", "l", "t", "o", ":">>)

\* drop_fragment(url), local to normalize_url
drop_fragment(u) ==
    LET pos == find(u, "#") IN
        IF pos > 0 THEN prefix(u, pos) ELSE u

\* Page.normalize_url(href) of the page at page_url in dom; None to skip
normalize_url(page_url, dom, href) ==
    IF is_full_url(href) THEN drop_fragment(href)
    ELSE IF startswith(href, <<"/">>)
    THEN drop_fragment(dom.default_scheme \o <<":", "/", "/">>
                       \o dom.netloc \o href)
    ELSE IF is_skippable(href) THEN None
    ELSE IF startswith(href, <<"#">>) THEN None
    ELSE LET h == IF ~endswith(page_url, <<"/">>) THEN <<"/">> \o href ELSE href
         IN  drop_fragment(page_url \o h)

\* Page.extract_urls(hrefs): the sequence of URLs the generator yields
RECURSIVE extract_urls(_, _, _)
extract_urls(page_url, dom, hrefs) ==
    IF hrefs = <<>> THEN <<>>
    ELSE LET href == Head(hrefs)
             more == extract_urls(page_url, dom, Tail(hrefs))
         IN  IF is_full_url(href)
             THEN IF url_in_domain(dom, href) THEN <<href>> \o more ELSE more
             ELSE LET u == normalize_url(page_url, dom, href)
                  IN  IF u = None THEN more ELSE <<u>> \o more

\* Page.extract_hrefs(text): text is the sequence of the <a> elements of the
\* parsed document, each the map of its attributes
RECURSIVE extract_hrefs(_)
extract_hrefs(text) ==
    IF text = <<>> THEN <<>>
    ELSE IF "href" \in DOMAIN Head(text)
         THEN <<Head(text).href>> \o extract_hrefs(Tail(text))
         ELSE extract_hrefs(Tail(text))

\* lxml.html.document_fromstring(text) raises ParserError: the body is no
\* document (an empty body, for one), written here as one element that is no <a>
TextUnparseable == <<[ParserError |-> <<"e">>]>>

document_fromstring_raises(text) == text = TextUnparseable

\* Page.urls(dom) of a page record
Page_urls(p) == extract_urls(p.url, p.domain, extract_hrefs(p.text))

\* Page.urls(dom) raises instead of yielding: its assertion fails, or
\* extract_hrefs cannot parse the body
Page_urls_raises(p) ==
    ~url_is_valid(p.status) \/ document_fromstring_raises(p.text)

\* Page._post__init__(): the assertion of the method. @dataclass calls a
\* method named __post_init__ after __init__; no code calls this one
Page_post__init__(p) == url_in_domain(p.domain, p.url)

\* Page(url, dom, status, text), as mk_page builds it
mk_page(u, dom, resp) ==
    [url |-> u, domain |-> dom, status |-> resp.status, text |-> resp.text]

(***************************************************************************)
(* class Links                                                             *)
(***************************************************************************)
\* Links.unchecked
unchecked == all \ checked

\* Links.empty()
Links_empty == Cardinality(unchecked) = 0

\* the checked set after pop() chose link
pop_checked_NoMark(chk, link) == chk

pop_checked(chk, link) == chk \cup {link}

\* the all set after add(link)
add_all_Reset(s, link) == {link}

add_all(s, link) == s \cup {link}

\* the all set after add_many(links)
RECURSIVE add_many_all(_, _)
add_many_all_First(s, links) ==
    IF links = <<>> THEN s ELSE add_all(s, Head(links))

add_many_all(s, links) ==
    IF links = <<>> THEN s
    ELSE add_many_all(add_all(s, Head(links)), Tail(links))

\* Links.pop() returning link
Links_pop(link) ==
    /\ link \in unchecked
    /\ checked' = pop_checked(checked, link)
    /\ all' = all
    /\ ret' = link
    /\ op' = "pop"

\* Links.add(link)
Links_add_Uncheck(link) ==
    /\ all' = add_all(all, link)
    /\ checked' = checked \ {link}
    /\ ret' = None
    /\ op' = "add"

Links_add(link) ==
    /\ all' = add_all(all, link)
    /\ checked' = checked
    /\ ret' = None
    /\ op' = "add"

\* Links.add_many(links)
Links_add_many(links) ==
    /\ all' = add_many_all(all, links)
    /\ checked' = checked
    /\ ret' = None
    /\ op' = "add_many"

(***************************************************************************)
(* class Report                                                            *)
(***************************************************************************)
\* Report.add_good(url): the good_urls set afterwards
add_good_Last(s, u) == {u}

add_good(s, u) == s \cup {u}

\* Report.add_bad(url): the bad_urls set afterwards
add_bad_Drop(s, u) == s

add_bad(s, u) == s \cup {u}

(***************************************************************************)
(* The sites crawled: what the transport may answer for a URL.             *)
(***************************************************************************)
HTTP == <<"h", "t", "t", "p", ":", "/", "/">>
HTTPS == <<"h", "t", "t", "p", "s", ":", "/", "/">>

\* the root URLs given on the command line
Roots == {HTTP \o <<"a">>, HTTP \o <<"a", "/">>}

\* an <a> element with an href attribute, and one without
Anchor(h) == [href |-> h]
NoHref == [name |-> <<"n">>]

\* the page bodies the modelled sites serve
TextEmpty == <<>>
TextLocal == <<Anchor(<<"/", "c">>), NoHref, Anchor(<<"x">>), Anchor(<<"#", "f">>)>>
TextAbsolute == <<Anchor(HTTP \o <<"b", "/", "c">>), Anchor(HTTPS \o <<"a">>),
                  Anchor(<<"M", "a", "i", "l", "t", "o", ":", "m">>)>>
TextBack == <<Anchor(HTTP \o <<"a">>), Anchor(<<"/", "c", "#", "f">>),
              Anchor(<<"/", "/", "b">>)>>
Texts == {TextEmpty, TextLocal, TextAbsolute, TextBack, TextUnparseable}

\* the answers of the modelled sites to a request: a status code on either
\* side of each end of [200, 300), with a body
SiteAnswers == {
    [status |-> 200, text |-> TextLocal],
    [status |-> 200, text |-> TextBack],
    [status |-> 200, text |-> TextEmpty],
    [status |-> 200, text |-> TextUnparseable],
    [status |-> 299, text |-> TextAbsolute],
    [status |-> 300, text |-> TextLocal],
    [status |-> 199, text |-> TextBack],
    [status |-> 404, text |-> TextEmpty]}

\* the set of the elements of a sequence
Range(q) == {q[i] : i \in 1..Len(q)}

(***************************************************************************)
(* class EngineBase                                                        *)
(***************************************************************************)
\* self.domain, set by EngineBase.__init__ and never changed
domain == Domain_from_url(root)

\* EngineBase.exit_code()
exit_code_Inverted == IF Cardinality(bad_urls) = 0 THEN 1 ELSE 0

exit_code == IF Cardinality(bad_urls) = 0 THEN 0 ELSE 1

\* self.limit and count >= self.limit
limit_reached_OffByOne(lim, cnt) == lim # NoLimit /\ cnt > lim

limit_reached_Never(lim, cnt) == FALSE

limit_reached(lim, cnt) == lim # NoLimit /\ cnt >= lim

\* EngineBase.__init__(root_url, limit) for either engine class
Init ==
    /\ engine \in {"sequential", "async"}
    /\ root \in Roots
    /\ limit \in {NoLimit} \cup (1..MaxLimit)
    /\ all = add_all({}, root)
    /\ checked = {}
    /\ good_urls = {}
    /\ bad_urls = {}
    /\ count = 0
    /\ pc = "loop"
    /\ url = None
    /\ response = None
    /\ page = None
    /\ op = "add"
    /\ ret = None
    /\ responses = <<>>
    /\ fetches = <<>>
    /\ failed = {}
    /\ twin = None

(***************************************************************************)
(* The crawl loop, shared text of SequentialEngine.run and                 *)
(* AsyncEngine.run_async.                                                  *)
(***************************************************************************)
\* while not self.links.empty(): false, the loop ends
loop_exit(e) ==
    /\ engine = e /\ pc = "loop"
    /\ Links_empty
    /\ pc' = "done"
    /\ UNCHANGED <<twin, engine, root, limit, all, checked, good_urls, bad_urls, count,
                   url, response, page, op, ret, responses, fetches, failed>>

\* AsyncEngine.concurrency: a class attribute that no code reads
concurrency == 5

\* url = self.links.pop(); count += 1
loop_pop_Concurrent(e) ==
    /\ engine = e /\ pc \in {"loop", "fetch"}
    /\ ~Links_empty
    /\ \E link \in unchecked :
        /\ Links_pop(link)
        /\ url' = link
        /\ fetches' = IF link \in DOMAIN fetches
                      THEN [fetches EXCEPT ![link] = @ + 1]
                      ELSE [u \in DOMAIN fetches \cup {link} |->
                               IF u = link THEN 1 ELSE fetches[u]]
    /\ count' = count + 1
    /\ pc' = "fetch"
    /\ UNCHANGED <<twin, engine, root, limit, good_urls, bad_urls, response, page,
                   responses, failed>>

loop_pop(e) ==
    /\ engine = e /\ pc = "loop"
    /\ ~Links_empty
    /\ \E link \in unchecked :
        /\ Links_pop(link)
        /\ url' = link
        /\ fetches' = IF link \in DOMAIN fetches
                      THEN [fetches EXCEPT ![link] = @ + 1]
                      ELSE [u \in DOMAIN fetches \cup {link} |->
                               IF u = link THEN 1 ELSE fetches[u]]
    /\ count' = count + 1
    /\ pc' = "fetch"
    /\ UNCHANGED <<twin, engine, root, limit, good_urls, bad_urls, response, page,
                   responses, failed>>

\* the answers the transport may give for the current url: the site answers a
\* URL the same way each time, and the crawl of it discovers at most MaxUrls URLs
answers ==
    IF url \in DOMAIN responses THEN {responses[url]}
    ELSE {r \in SiteAnswers :
            \/ ~url_is_valid(r.status)
            \/ Cardinality(all \cup Range(Page_urls(mk_page(url, domain, r))))
                   <= MaxUrls}

\* the responses received so far, with r for url
record_response(r) == [u \in DOMAIN responses \cup {url} |->
                          IF u = url THEN r ELSE responses[u]]

\* response = self.fetch_url(url, self.domain); page = self.mk_page(url, response)
SequentialEngine_fetch ==
    /\ engine = "sequential" /\ pc = "fetch"
    /\ \E r \in answers :
        /\ response' = r
        /\ responses' = record_response(r)
        /\ page' = mk_page(url, domain, r)
    /\ pc' = "check"
    /\ UNCHANGED <<twin, engine, root, limit, all, checked, good_urls, bad_urls, count,
                   url, op, ret, fetches, failed>>

\* response = await self.fetch_url(url, self.domain)
AsyncEngine_fetch ==
    /\ engine = "async" /\ pc = "fetch"
    /\ \E r \in answers :
        /\ response' = r
        /\ responses' = record_response(r)
    /\ pc' = "mk_page"
    /\ UNCHANGED <<twin, engine, root, limit, all, checked, good_urls, bad_urls, count,
                   url, page, op, ret, fetches, failed>>

\* page = await self.mk_page(url, response)
AsyncEngine_mk_page ==
    /\ engine = "async" /\ pc = "mk_page"
    /\ page' = mk_page(url, domain, response)
    /\ pc' = "check"
    /\ UNCHANGED <<twin, engine, root, limit, all, checked, good_urls, bad_urls, count,
                   url, response, op, ret, responses, fetches, failed>>

\* requests.get / session.get / response.text() raises a transport error:
\* nothing in run or run_async catches it, and it ends the run
raise(e, at_pc) ==
    /\ engine = e /\ pc = at_pc
    /\ failed' = failed \cup {url}
    /\ pc' = "aborted"
    /\ UNCHANGED <<twin, engine, root, limit, all, checked, good_urls, bad_urls, count,
                   url, response, page, op, ret, responses, fetches>>

\* if page.url_is_valid(): ... else: ...; if self.limit and count >= self.limit: break
\* An exception of page.urls(...) is caught nowhere and ends the run.
loop_check(e) ==
    /\ engine = e /\ pc = "check"
    /\ IF url_is_valid(page.status)
       THEN IF Page_urls_raises(page)
            THEN /\ pc' = "aborted"
                 /\ UNCHANGED <<all, checked, op, ret, good_urls, bad_urls>>
            ELSE /\ Links_add_many(Page_urls(page))
                 /\ good_urls' = add_good(good_urls, url)
                 /\ bad_urls' = bad_urls
                 /\ pc' = IF limit_reached(limit, count) THEN "done" ELSE "loop"
       ELSE /\ bad_urls' = add_bad(bad_urls, url)
            /\ UNCHANGED <<all, checked, op, ret, good_urls>>
            /\ pc' = IF limit_reached(limit, count) THEN "done" ELSE "loop"
    /\ UNCHANGED <<twin, engine, root, limit, count, url, response, page,
                   responses, fetches, failed>>

SequentialEngine_loop_exit == loop_exit("sequential")
SequentialEngine_pop == loop_pop("sequential")
SequentialEngine_fetch_raise == raise("sequential", "fetch")
SequentialEngine_check == loop_check("sequential")

AsyncEngine_loop_exit == loop_exit("async")
AsyncEngine_pop == loop_pop("async")
AsyncEngine_fetch_raise == raise("async", "fetch")
AsyncEngine_mk_page_raise == raise("async", "mk_page")
AsyncEngine_check == loop_check("async")

\* SequentialEngine.run
SequentialEngine_run ==
    \/ SequentialEngine_loop_exit
    \/ SequentialEngine_pop
    \/ SequentialEngine_fetch
    \/ SequentialEngine_fetch_raise
    \/ SequentialEngine_check

\* AsyncEngine.run_async
AsyncEngine_run_async ==
    \/ AsyncEngine_loop_exit
    \/ AsyncEngine_pop
    \/ AsyncEngine_fetch
    \/ AsyncEngine_fetch_raise
    \/ AsyncEngine_mk_page
    \/ AsyncEngine_mk_page_raise
    \/ AsyncEngine_check

Next == SequentialEngine_run \/ AsyncEngine_run_async

Spec == Init /\ [][Next]_vars

\* a step of either loop, the raising steps first
Step ==
    \/ SequentialEngine_loop_exit \/ SequentialEngine_pop
    \/ SequentialEngine_fetch_raise \/ SequentialEngine_check
    \/ AsyncEngine_loop_exit \/ AsyncEngine_pop \/ AsyncEngine_fetch_raise
    \/ AsyncEngine_mk_page_raise \/ AsyncEngine_check
    \/ SequentialEngine_fetch \/ AsyncEngine_fetch \/ AsyncEngine_mk_page

\* the interpreter and the event loop keep running the loop, and every request
\* that was started is answered or fails
FairSpec == Spec /\ WF_vars(Step)

(***************************************************************************)
(* The two engines side by side on one site. The variables above run       *)
(* SequentialEngine.run; twin is the state of an AsyncEngine built with    *)
(* the same root and limit, run by run_async as written in its own lines.  *)
(* The loops go iteration by iteration: the sequential one first, then     *)
(* run_async with the URL that pop gave there and the answer the site gave.*)
(***************************************************************************)
\* AsyncEngine(root_url, limit): EngineBase.__init__, and count = 0
AsyncEngine_init ==
    [all |-> add_all({}, root), checked |-> {}, good_urls |-> {}, bad_urls |-> {},
     count |-> 0, pc |-> "loop", url |-> None, response |-> None, page |-> None]

\* url = self.links.pop(); count += 1
run_async_pop(t, link) ==
    [t EXCEPT !.checked = pop_checked(@, link), !.url = link,
              !.count = @ + 1, !.pc = "fetch"]

\* response = await self.fetch_url(url, self.domain)
run_async_fetch(t, r) == [t EXCEPT !.response = r, !.pc = "mk_page"]

\* page = await self.mk_page(url, response)
run_async_mk_page(t) ==
    [t EXCEPT !.page = mk_page(t.url, domain, t.response), !.pc = "check"]

\* if page.url_is_valid(): ... else: ...; if self.limit and count >= self.limit: break
run_async_check_NoAdd(t) ==
    IF url_is_valid(t.page.status)
    THEN [t EXCEPT !.good_urls = add_good(@, t.url),
                   !.pc = IF limit_reached(limit, t.count) THEN "done" ELSE "loop"]
    ELSE [t EXCEPT !.bad_urls = add_bad(@, t.url),
                   !.pc = IF limit_reached(limit, t.count) THEN "done" ELSE "loop"]

run_async_check(t) ==
    IF url_is_valid(t.page.status)
    THEN IF Page_urls_raises(t.page)
         THEN [t EXCEPT !.pc = "aborted"]
         ELSE [t EXCEPT !.all = add_many_all(@, Page_urls(t.page)),
                        !.good_urls = add_good(@, t.url),
                        !.pc = IF limit_reached(limit, t.count)
                               THEN "done" ELSE "loop"]
    ELSE [t EXCEPT !.bad_urls = add_bad(@, t.url),
                   !.pc = IF limit_reached(limit, t.count) THEN "done" ELSE "loop"]

\* while not self.links.empty(): the frontier is empty
run_async_exit(t) == [t EXCEPT !.pc = "done"]

\* session.get raises: run_async catches nothing
run_async_raise(t) == [t EXCEPT !.pc = "aborted"]

InitPair ==
    /\ engine = "sequential"
    /\ root \in Roots
    /\ limit \in {NoLimit} \cup (1..MaxLimit)
    /\ all = add_all({}, root)
    /\ checked = {}
    /\ good_urls = {}
    /\ bad_urls = {}
    /\ count = 0
    /\ pc = "loop"
    /\ url = None
    /\ response = None
    /\ page = None
    /\ op = "add"
    /\ ret = None
    /\ responses = <<>>
    /\ fetches = <<>>
    /\ failed = {}
    /\ twin = AsyncEngine_init

\* the sequential loop starts an iteration once run_async has done the last one
Pair_sequential ==
    /\ pc = "loop" => twin.pc = "loop" /\ twin.count = count
    /\ SequentialEngine_run

\* run_async pops the URL that pop gave the sequential loop in this iteration
Pair_async_pop ==
    /\ pc \in {"loop", "done", "aborted"}
    /\ twin.pc = "loop" /\ twin.count < count
    /\ url \in twin.all \ twin.checked
    /\ twin' = run_async_pop(twin, url)
    /\ UNCHANGED <<engine, root, limit, all, checked, good_urls, bad_urls, count,
                   pc, url, response, page, op, ret, responses, fetches, failed>>

\* the sequential loop found its frontier empty, and so does run_async
Pair_async_exit ==
    /\ pc = "done"
    /\ twin.pc = "loop" /\ twin.count = count
    /\ twin.all \ twin.checked = {}
    /\ twin' = run_async_exit(twin)
    /\ UNCHANGED <<engine, root, limit, all, checked, good_urls, bad_urls, count,
                   pc, url, response, page, op, ret, responses, fetches, failed>>

\* the site answers run_async as it answered the sequential loop
Pair_async_fetch ==
    /\ twin.pc = "fetch"
    /\ twin.url \in DOMAIN responses
    /\ twin' = run_async_fetch(twin, responses[twin.url])
    /\ UNCHANGED <<engine, root, limit, all, checked, good_urls, bad_urls, count,
                   pc, url, response, page, op, ret, responses, fetches, failed>>

\* the request that failed in the sequential loop fails in run_async
Pair_async_fetch_raise ==
    /\ twin.pc = "fetch"
    /\ twin.url \in failed
    /\ twin' = run_async_raise(twin)
    /\ UNCHANGED <<engine, root, limit, all, checked, good_urls, bad_urls, count,
                   pc, url, response, page, op, ret, responses, fetches, failed>>

Pair_async_mk_page ==
    /\ twin.pc = "mk_page"
    /\ twin' = run_async_mk_page(twin)
    /\ UNCHANGED <<engine, root, limit, all, checked, good_urls, bad_urls, count,
                   pc, url, response, page, op, ret, responses, fetches, failed>>

Pair_async_check ==
    /\ twin.pc = "check"
    /\ twin' = run_async_check(twin)
    /\ UNCHANGED <<engine, root, limit, all, checked, good_urls, bad_urls, count,
                   pc, url, response, page, op, ret, responses, fetches, failed>>

NextPair ==
    \/ Pair_sequential
    \/ Pair_async_pop
    \/ Pair_async_exit
    \/ Pair_async_fetch
    \/ Pair_async_fetch_raise
    \/ Pair_async_mk_page
    \/ Pair_async_check

SpecPair == InitPair /\ [][NextPair]_vars

(***************************************************************************)
(* The Links class on its own, as test_linkcheck.py's TestLinks drives it: *)
(* any sequence of add, add_many and pop on a frontier created empty.      *)
(***************************************************************************)
\* the links handed to add and add_many
LinkPool == {HTTP \o <<"a">>, HTTP \o <<"a", "/", "b">>, HTTP \o <<"a", "/", "c">>,
             HTTPS \o <<"a">>}

\* the lists handed to add_many: at most MaxMany links
LinkLists == UNION {[1..n -> LinkPool] : n \in 0..MaxMany}

\* Links.__init__()
InitLinks ==
    /\ all = {}
    /\ checked = {}
    /\ op = "init"
    /\ ret = None
    /\ engine = "none"
    /\ root = None
    /\ limit = NoLimit
    /\ good_urls = {}
    /\ bad_urls = {}
    /\ count = 0
    /\ pc = "links"
    /\ url = None
    /\ response = None
    /\ page = None
    /\ responses = <<>>
    /\ fetches = <<>>
    /\ failed = {}
    /\ twin = None

\* links.add(link); url keeps the link that was added
TestLinks_add ==
    /\ \E link \in LinkPool : Links_add(link) /\ url' = link
    /\ UNCHANGED <<twin, engine, root, limit, good_urls, bad_urls, count, pc,
                   response, page, responses, fetches, failed>>

TestLinks_add_many ==
    /\ \E links \in LinkLists : Links_add_many(links)
    /\ UNCHANGED <<twin, engine, root, limit, good_urls, bad_urls, count, pc, url,
                   response, page, responses, fetches, failed>>

\* pop() of an empty frontier raises KeyError and changes nothing
TestLinks_pop ==
    /\ \E link \in unchecked : Links_pop(link)
    /\ UNCHANGED <<twin, engine, root, limit, good_urls, bad_urls, count, pc, url,
                   response, page, responses, fetches, failed>>

NextLinks == TestLinks_add \/ TestLinks_add_many \/ TestLinks_pop

SpecLinks == InitLinks /\ [][NextLinks]_vars

(***************************************************************************)
(* Domain and Page on their own, as test_linkcheck.py's TestDomain and     *)
(* TestPage drive them: a Domain from a root URL, a Page built for a URL,  *)
(* and url_in_domain, normalize_url and extract_urls applied to inputs.    *)
(***************************************************************************)
Schemes == {<<"h", "t", "t", "p">>, <<"h", "t", "t", "p", "s">>}
Hosts == {<<"a">>, <<"b">>, <<"A">>}
Paths == {<<>>, <<"/">>, <<"/", "s">>}

\* the URL of a scheme, a host and a path
Url(scheme, host, path) == scheme \o <<":", "/", "/">> \o host \o path

\* the URLs the tests build domains and pages from
TestUrls == {Url(sc, h, p) : sc \in Schemes, h \in Hosts, p \in Paths}

\* the hrefs handed to normalize_url
TestHrefs == {
    <<"/", "c">>, <<"/", "c", "#", "f">>, <<"/">>,
    <<"x">>, <<"x", "#", "f">>, <<>>,
    <<"#", "f">>,
    <<"m", "a", "i", "l", "t", "o", ":", "m">>,
    <<"M", "a", "i", "l", "t", "o", ":", "m">>,
    <<"M", "A", "I", "L", "T", "O", ":", "m">>,
    <<"m", "a", "i", "l", "t", "o">>,
    HTTP \o <<"a", "/", "c">>, HTTP \o <<"a", "/", "c", "#", "f">>,
    HTTPS \o <<"b", "/", "c", "#", "f">>}

\* the hrefs of the lists handed to extract_urls
ExtractHrefs == {
    <<"/", "c">>, <<"x", "#", "f">>, <<"#", "f">>,
    <<"M", "a", "i", "l", "t", "o", ":", "m">>,
    HTTP \o <<"a", "/", "c">>, HTTP \o <<"a", "/", "c", "#", "f">>,
    HTTPS \o <<"b", "/", "c">>}

\* the lists handed to extract_urls: at most MaxHrefs hrefs
HrefLists == UNION {[1..n -> ExtractHrefs] : n \in 0..MaxHrefs}

\* domain = Domain.from_url(root); each test then applies one method to a
\* fresh domain or a fresh page
InitPage ==
    /\ root \in TestUrls
    /\ op = "init"
    /\ ret = None
    /\ url = None
    /\ page = None
    /\ response = None
    /\ engine = "none"
    /\ limit = NoLimit
    /\ all = {}
    /\ checked = {}
    /\ good_urls = {}
    /\ bad_urls = {}
    /\ count = 0
    /\ pc = "page"
    /\ responses = <<>>
    /\ fetches = <<>>
    /\ failed = {}
    /\ twin = None

\* page = Page(url, domain, None, None); the status and the text play no part
TestPage_Page ==
    /\ op = "init"
    /\ \E u \in TestUrls :
        /\ url' = u
        /\ page' = mk_page(u, domain, [status |-> 200, text |-> TextEmpty])
    /\ op' = "Page"
    /\ ret' = None
    /\ response' = None
    /\ UNCHANGED <<twin, engine, root, limit, all, checked, good_urls, bad_urls, count,
                   pc, responses, fetches, failed>>

\* page.normalize_url(href)
TestPage_normalize_url ==
    /\ op = "Page"
    /\ \E href \in TestHrefs :
        /\ response' = href
        /\ ret' = normalize_url(page.url, page.domain, href)
    /\ op' = "normalize_url"
    /\ UNCHANGED <<twin, engine, root, limit, all, checked, good_urls, bad_urls, count,
                   pc, url, page, responses, fetches, failed>>

\* list(page.extract_urls(hrefs))
TestPage_extract_urls ==
    /\ op = "Page"
    /\ \E hrefs \in HrefLists :
        /\ response' = hrefs
        /\ ret' = extract_urls(page.url, page.domain, hrefs)
    /\ op' = "extract_urls"
    /\ UNCHANGED <<twin, engine, root, limit, all, checked, good_urls, bad_urls, count,
                   pc, url, page, responses, fetches, failed>>

\* domain.url_in_domain(u)
TestDomain_url_in_domain ==
    /\ op = "init"
    /\ \E u \in TestUrls :
        /\ response' = u
        /\ ret' = url_in_domain(domain, u)
    /\ op' = "url_in_domain"
    /\ UNCHANGED <<twin, engine, root, limit, all, checked, good_urls, bad_urls, count,
                   pc, url, page, responses, fetches, failed>>

NextPage ==
    \/ TestPage_Page
    \/ TestPage_normalize_url
    \/ TestPage_extract_urls
    \/ TestDomain_url_in_domain

SpecPage == InitPage /\ [][NextPage]_vars

(***************************************************************************)
(* The properties checked.                                                 *)
(***************************************************************************)
\* the status is in [200, 300)
Is2xx(status) == 200 <= status /\ status < 300

\* the URLs the page fetched at u links to, after normalisation and scoping
LinksOf(u) == Range(extract_urls(u, domain, extract_hrefs(responses[u].text)))

\* the URLs reachable from the root over the links of the fetched 2xx pages
RECURSIVE ReachableFrom(_)
ReachableFrom(R) ==
    LET more == R \cup UNION {LinksOf(u) :
                    u \in {v \in R \cap DOMAIN responses : Is2xx(responses[v].status)}}
    IN  IF more = R THEN R ELSE ReachableFrom(more)

\* C1: in a run of either engine no URL is popped from the frontier and
\* fetched more than once, whatever the pages link to
C1_NoUrlFetchedTwice == \A u \in DOMAIN fetches : fetches[u] = 1

\* a finished run in which a good page other than the root links back to the
\* root, which was checked by then
C1_Witness ==
    /\ pc = "done"
    /\ limit = NoLimit
    /\ \E u \in good_urls \ {root} : root \in LinksOf(u)

\* C2: after every add, add_many and pop, checked is a subset of all, and pop
\* returns a URL that was in all and not in checked before the call and is in
\* checked and not in unchecked after it
C2_LinksInvariant ==
    /\ [](checked \subseteq all)
    /\ [][op' = "pop" =>
            /\ ret' \in all /\ ret' \notin checked
            /\ ret' \in checked' /\ ret' \notin (all' \ checked')]_vars

\* a pop has returned a link while other links stay unchecked
C2_Witness == op = "pop" /\ ret \in checked /\ unchecked # {}

\* C3: no URL is ever removed from good_urls or bad_urls, and after every
\* completed loop iteration the two are disjoint and their union is checked
C3_GoodBadPartition ==
    [][/\ good_urls \subseteq good_urls'
       /\ bad_urls \subseteq bad_urls'
       /\ pc' \in {"loop", "done"} =>
            /\ good_urls' \cap bad_urls' = {}
            /\ good_urls' \cup bad_urls' = checked']_vars

\* at the top of the loop with a good and a bad URL recorded
C3_Witness == pc = "loop" /\ good_urls # {} /\ bad_urls # {}

\* C4: every URL added to the frontier, fetched or reported has the netloc of
\* the root URL, and an absolute link to another netloc found on a good page
\* is never enqueued
C4_SameNetloc ==
    /\ \A u \in all \cup checked \cup good_urls \cup bad_urls \cup DOMAIN fetches :
         urlparse_netloc(u) = urlparse_netloc(root)
    /\ \A u \in good_urls : \A href \in Range(extract_hrefs(responses[u].text)) :
         (is_full_url(href) /\ urlparse_netloc(href) # urlparse_netloc(root))
            => href \notin all

\* a finished run with a good page that links to another netloc
C4_Witness ==
    /\ pc = "done"
    /\ \E u \in good_urls : \E href \in Range(extract_hrefs(responses[u].text)) :
         is_full_url(href) /\ urlparse_netloc(href) # urlparse_netloc(root)

\* C5: with a limit n at most n URLs are popped and fetched, the loop is not
\* entered again once count is n, unprocessed URLs stay unchecked and
\* unreported, and with limit 1 only the root is processed
C5_LimitBoundsProcessing ==
    limit # NoLimit =>
        /\ count <= limit
        /\ Cardinality(checked) <= limit
        /\ \A u \in DOMAIN fetches : fetches[u] <= limit
        /\ Cardinality(DOMAIN fetches) <= limit
        /\ count = limit => pc # "loop"
        /\ unchecked \cap (good_urls \cup bad_urls) = {}
        /\ limit = 1 => checked \subseteq {root}

\* a run stopped by its limit with discovered URLs left unchecked
C5_Witness ==
    /\ pc = "done"
    /\ limit # NoLimit
    /\ count = limit
    /\ unchecked # {}

\* C6: when a run with no limit ends, the frontier is empty, every URL of all
\* is in exactly one of good and bad, and the URLs visited are those reachable
\* from the root over the links of the 2xx pages
C6_CompleteCrawl ==
    (pc = "done" /\ limit = NoLimit) =>
        /\ unchecked = {}
        /\ all = good_urls \cup bad_urls
        /\ good_urls \cap bad_urls = {}
        /\ checked = ReachableFrom({root})

\* a finished unlimited run that visited good and bad pages beyond the root
C6_Witness ==
    /\ pc = "done"
    /\ limit = NoLimit
    /\ Cardinality(good_urls) >= 2
    /\ bad_urls # {}

\* C7: the loop ends. Unless an exception ends the run first, the run
\* reaches the end of run: with a limit after at most limit iterations, without
\* one with an empty frontier; and each iteration makes checked one URL larger
C7_LoopTerminates ==
    /\ <>(pc = "done" \/ pc = "aborted")
    /\ [](limit # NoLimit => count <= limit)
    /\ []((pc = "done" /\ limit = NoLimit) => unchecked = {})
    /\ [][count' # count =>
            /\ count' = count + 1
            /\ Cardinality(checked') = Cardinality(checked) + 1
            /\ Cardinality(checked') = count']_vars

\* an unlimited run has ended after three iterations or more
C7_Witness ==
    /\ pc = "done"
    /\ limit = NoLimit
    /\ count >= 3
    /\ unchecked = {}

\* C8: a transport failure while fetching a URL is contained to that URL: the
\* run does not end there, and once the iteration is over the URL is in bad_urls
C8_FetchFailureContained ==
    /\ ~(pc = "aborted" /\ url \in failed)
    /\ pc \in {"loop", "done"} => failed \subseteq bad_urls

\* C9: a processed URL is in good_urls exactly when the status its fetch
\* returned is in [200, 300), and in bad_urls otherwise
C9_ClassifiedByStatus ==
    /\ good_urls \cup bad_urls \subseteq DOMAIN responses
    /\ \A u \in good_urls \cup bad_urls :
        /\ u \in good_urls <=> Is2xx(responses[u].status)
        /\ u \in bad_urls <=> ~Is2xx(responses[u].status)

\* statuses on both sides of the upper end of the range have been classified,
\* and the same body has been classified both ways
C9_Witness ==
    /\ \E u \in good_urls : responses[u].status = 299
    /\ \E u \in bad_urls : responses[u].status = 300
    /\ \E u \in good_urls : \E v \in bad_urls :
         responses[u].text = responses[v].text

\* C10: exit_code() is 0 exactly when bad_urls is empty and 1 otherwise, and
\* after a completed run it is 1 exactly when some fetched URL returned a
\* status outside [200, 300)
C10_ExitCode ==
    /\ exit_code \in {0, 1}
    /\ exit_code = 0 <=> bad_urls = {}
    /\ pc = "done" =>
         (exit_code = 1 <=> \E u \in DOMAIN responses : ~Is2xx(responses[u].status))

\* a completed run of several pages whose only bad status is 300
C10_Witness ==
    /\ pc = "done"
    /\ exit_code = 1
    /\ Cardinality(good_urls) >= 2
    /\ \A u \in bad_urls : responses[u].status = 300

\* the part of a string before its first '#', the whole string when it has none
UpToHash(s) ==
    LET H == {i \in 1..Len(s) : s[i] = "#"}
    IN IF H = {} THEN s
       ELSE SubSeq(s, 1, (CHOOSE i \in H : \A j \in H : i <= j) - 1)

\* C11: every URL extract_urls yields has no fragment: an absolute in-domain
\* href comes out with its '#fragment' removed, and hrefs that differ only in
\* the fragment come out as the same URL
C11_FragmentFree ==
    op = "extract_urls" =>
        /\ \A i \in 1..Len(ret) : "#" \notin Range(ret[i])
        /\ \A u, v \in Range(ret) : UpToHash(u) = UpToHash(v) => u = v

\* the mailto: prefix, in any letter case
IsMailto(h) ==
    /\ Len(h) >= 7
    /\ h[1] \in {"m", "M"} /\ h[2] \in {"a", "A"} /\ h[3] \in {"i", "I"}
    /\ h[4] \in {"l", "L"} /\ h[5] \in {"t", "T"} /\ h[6] \in {"o", "O"}
    /\ h[7] = ":"

\* what the rules of normalize_url give for an href on a page whose domain has
\* the scheme sc and the netloc h
Normalized(page_url, sc, h, href) ==
    IF Len(href) >= 7 /\ SubSeq(href, 1, 7) = SubSeq(HTTP, 1, 7)
        THEN UpToHash(href)
    ELSE IF Len(href) >= 8 /\ SubSeq(href, 1, 8) = SubSeq(HTTPS, 1, 8)
        THEN UpToHash(href)
    ELSE IF Len(href) >= 1 /\ href[1] = "/"
        THEN UpToHash(sc \o <<":", "/", "/">> \o h \o href)
    ELSE IF IsMailto(href) THEN None
    ELSE IF Len(href) >= 1 /\ href[1] = "#" THEN None
    ELSE UpToHash(page_url
                  \o (IF page_url[Len(page_url)] = "/" THEN <<>> ELSE <<"/">>)
                  \o href)

C16_PageInDomain ==
    op = "Page" =>
        \A sc1, sc2 \in Schemes : \A h1, h2 \in Hosts : \A p1, p2 \in Paths :
            root = Url(sc1, h1, p1) /\ page.url = Url(sc2, h2, p2) => h1 = h2

\* C17: url_in_domain(url) is true exactly when the URL's netloc equals the
\* netloc of the root URL, whatever their schemes and paths
C17_InDomainIffSameNetloc ==
    op = "url_in_domain" =>
        \A sc1, sc2 \in Schemes : \A h1, h2 \in Hosts : \A p1, p2 \in Paths :
            root = Url(sc1, h1, p1) /\ response = Url(sc2, h2, p2)
            => (ret <=> h1 = h2)

\* a URL of another scheme and another path has been found in the domain
C17_Witness ==
    /\ op = "url_in_domain"
    /\ ret
    /\ startswith(root, HTTPS) /\ ~startswith(response, HTTPS)
    /\ endswith(root, <<"s">>) /\ endswith(response, <<"/">>)

\* C18: Links.add is idempotent: adding a URL that is already in the
\* frontier changes nothing, adding the same URL twice to an empty frontier
\* leaves one unchecked URL, and adding a URL that was already popped does
\* not make it unchecked again
C18_AddIdempotent ==
    [][op' = "add" =>
         /\ checked' = checked
         /\ all' = all \cup {url'}
         /\ url' \in all => all' = all /\ unchecked' = unchecked
         /\ url' \in checked => url' \notin unchecked'
         /\ (op = "add" /\ url = url' /\ all = {url} /\ checked = {})
              => Cardinality(unchecked') = 1]_vars

\* a URL that was popped before has been added again
C18_Witness == op = "add" /\ url \in checked /\ unchecked = {}

\* C14: the AsyncEngine has at most one fetch outstanding, whatever its
\* concurrency attribute says: when a URL is popped every URL popped before
\* it has had its response and has been recorded as good or bad
C14_OneFetchAtATime ==
    engine = "async" =>
        /\ Cardinality(checked \ (good_urls \cup bad_urls)) <= 1
        /\ pc = "loop" => checked = good_urls \cup bad_urls
        /\ pc = "fetch" =>
             /\ checked \ {url} = good_urls \cup bad_urls
             /\ checked \ {url} \subseteq DOMAIN responses

\* one fetch is outstanding while several URLs wait in the frontier, few
\* enough for concurrency fetches to take them all at once
C14_Witness ==
    /\ engine = "async"
    /\ pc = "fetch"
    /\ good_urls # {}
    /\ Cardinality(unchecked) >= 2
    /\ Cardinality(unchecked) + 1 <= concurrency

\* C15: a page whose body cannot be parsed fails soft: the run does not end
\* on it, and after its iteration its URL is good or bad by its status alone
C15_UnparseableFailsSoft ==
    /\ ~(pc = "aborted" /\ url \notin failed)
    /\ pc \in {"loop", "done"} =>
         \A u \in DOMAIN responses :
             responses[u].text = TextUnparseable =>
                 /\ u \in good_urls <=> Is2xx(responses[u].status)
                 /\ u \in bad_urls <=> ~Is2xx(responses[u].status)

\* C19: an iteration on a page whose status is outside [200, 300) leaves all
\* as it was and records the URL as bad; all changes only in the check of a
\* page whose status is valid, so the assertion of Page.urls never fails
C19_InvalidPageAddsNothing ==
    [][/\ all' # all => pc = "check" /\ Is2xx(page.status)
       /\ (pc = "check" /\ ~Is2xx(page.status)) =>
            /\ all' = all
            /\ pc' # "aborted"
            /\ url \in bad_urls' /\ url \notin good_urls']_vars

\* a page with an invalid status has been recorded as bad while a link of its
\* body is not in the frontier
C19_Witness ==
    /\ pc \in {"loop", "done"}
    /\ url \in bad_urls
    /\ ~(LinksOf(url) \subseteq all)

\* C20: the root is the first URL processed, and when a run with no limit
\* ends, good, bad and the exit code are those the site fixes: the pages
\* reachable from the root, split by their statuses, whichever URLs pop chose
C20_PopChoiceIndependent ==
    /\ count >= 1 => root \in checked
    /\ count = 1 => url = root
    /\ (pc = "done" /\ limit = NoLimit) =>
         LET R == ReachableFrom({root})
             G == {u \in R : Is2xx(responses[u].status)}
         IN  /\ R \subseteq DOMAIN responses
             /\ good_urls = G
             /\ bad_urls = R \ G
             /\ exit_code = IF R \ G = {} THEN 0 ELSE 1

\* a finished run with no limit in which pop had to choose: the root links to
\* two other pages, one of them good and one of them bad
C20_Witness ==
    /\ pc = "done"
    /\ limit = NoLimit
    /\ \E u \in good_urls \ {root} : \E v \in bad_urls \ {root} :
         {u, v} \subseteq LinksOf(root)

====
